---- MODULE Spec2Model ----
(***************************************************************************)
(* Model of the host-side protocol engine of the Skycoin hardware wallet   *)
(* (src/src/skywallet/skywallet.go): the Device struct, its connection     *)
(* lifecycle (Connect / Disconnect / Connected) and its public operations. *)
(*                                                                         *)
(* One public operation runs at a time.  pc is the call stack of the       *)
(* running operation (its head is the statement about to run); <<>> is the *)
(* state after NewDevice and <<"done">> the state after an operation has   *)
(* returned.  The device and the transport are the environment: every      *)
(* write and read may fail, and every read may deliver any message kind.   *)
(***************************************************************************)
EXTENDS Integers, Sequences, FiniteSets, TLC

\* ---------------------------------------------------------------- bounds
\* handles one operation sees (the one held on entry and those it opens)
\* before GetDevice only fails
MaxHandles == 4
\* EntropyRequest messages the device sends within one operation
MaxEntropyReq == 1
\* entropy-ack write tasks left running by operations that already returned
MaxLeaked == 1

\* ButtonRequest messages the device sends within one entropy stream
MaxButtonReq == 1
\* largest byte count asked of SaveDeviceEntropyInFile
MaxTotal == 2
\* largest entropy payload of one reply
MaxChunk == 2
\* entropy requests after which the device stops sending empty payloads
MaxRequests == 2

\* ------------------------------------------------------------- constants
DeviceTypes == {"USB", "Emulator"}

\* kinds of logical message the device answers with; "Entropy" also stands
\* for every kind an operation has no rule for
Kinds == {"Success", "Failure", "ButtonRequest", "EntropyRequest", "Entropy"}

\* wire.Message{}: the zero message returned beside an error
Empty == "Empty"

SimpleOps == {"AddressGen", "ApplySettings", "Cancel", "CheckMessageSignature",
              "GetFeatures", "TransactionSign", "PassphraseAck", "WordAck",
              "PinMatrixAck"}

ButtonOps == {"ChangePin", "GenerateMnemonic", "Recovery", "SetMnemonic",
              "SignMessage", "Wipe"}

NoResult == [msg |-> Empty, err |-> "unset"]

Res(m, e) == [msg |-> m, err |-> e]

VARIABLES
    deviceType,          \* d.Driver.DeviceType()
    dev,                 \* d.dev: the held handle, 0 is nil
    handles,             \* handles[h]: how often Close was called on handle h
    simulateButtonPress, \* d.simulateButtonPress
    simulateButtonType,  \* d.simulateButtonType
    op,                  \* the public operation running or last run
    arg,                 \* its validated argument
    pc,                  \* call stack of labels
    disconnected,        \* the local of ChangePin, ..., Backup
    deferDev,            \* receiver captured by `defer d.dev.Close(false)`
    baDev,               \* the same for ButtonAck's defer
    msg,                 \* message last read by the running function
    connErr,             \* what Connect returned
    baRet,               \* what ButtonAck returned
    result,              \* what the public operation returned
    trace,               \* driver and transport calls of this operation
    cur,                 \* 1 while this iteration's entropy-ack task runs
    leaked,              \* entropy-ack tasks of functions that returned
    connected,           \* what Connected returned
    discErr,             \* what Disconnect returned
    usingStdout,         \* SaveDeviceEntropyInFile: outFile is "-"
    receivedEntropyBytes,\* SaveDeviceEntropyInFile: bytes received so far
    sink,                \* lengths of the buffers handed to processBytes
    requests,            \* byte counts asked for by getEntropy
    replies,             \* payload lengths of the Entropy replies received
    entErr               \* the error SaveDeviceEntropyInFile is returning

devVars == <<deviceType, dev, handles, simulateButtonPress, simulateButtonType>>
vars == <<deviceType, dev, handles, simulateButtonPress, simulateButtonType,
          op, arg, pc, disconnected, deferDev, baDev, msg, connErr, baRet,
          result, trace, cur, leaked, connected, discErr, usingStdout,
          receivedEntropyBytes, sink, requests, replies, entErr>>

entVars == <<usingStdout, receivedEntropyBytes, sink, requests, replies, entErr>>

\* ------------------------------------------------------------ helpers
IsOpen(h) == h # 0 /\ handles[h] = 0

OpenHandles == {h \in 1..Len(handles) : handles[h] = 0}

\* usb.Device.Close on handle h
Closed(hs, h) == [hs EXCEPT ![h] = @ + 1]

Ev(t, h, x) == <<t, h, x>>

Count(t, x) == Cardinality({i \in 1..Len(trace) : trace[i][1] = t /\ trace[i][3] = x})

\* kinds the device may send next: EntropyRequest only MaxEntropyReq times in
\* one operation, ButtonRequest only MaxButtonReq times in one entropy stream
Replies ==
    {k \in Kinds :
        /\ k = "EntropyRequest" => Count("read", k) < MaxEntropyReq
        /\ k = "ButtonRequest" /\ op = "SaveDeviceEntropyInFile"
              => Count("read", k) < MaxButtonReq}

RECURSIVE Sum(_)
Sum(q) == IF q = <<>> THEN 0 ELSE Head(q) + Sum(Tail(q))

Idle == pc = <<>> \/ pc = <<"done">>

At(l) == pc # <<>> /\ Head(pc) = l

Goto(l) == <<l>> \o Tail(pc)

\* ------------------------------------------------------------ Init
Init ==
    /\ deviceType \in DeviceTypes
    /\ dev = 0
    /\ handles = <<>>
    /\ simulateButtonPress = FALSE
    /\ simulateButtonType = -1
    /\ op = "none"
    /\ arg = 0
    /\ pc = <<>>
    /\ disconnected = FALSE
    /\ deferDev = 0
    /\ baDev = 0
    /\ msg = Empty
    /\ connErr = "nil"
    /\ baRet = NoResult
    /\ result = NoResult
    /\ trace = <<>>
    /\ cur = 0
    /\ leaked = 0
    /\ connected = FALSE
    /\ discErr = "nil"
    /\ usingStdout = FALSE
    /\ receivedEntropyBytes = 0
    /\ sink = <<>>
    /\ requests = <<>>
    /\ replies = <<>>
    /\ entErr = "nil"

\* ConnectClose that drops the held handle without closing it
ConnectDropsHandle ==
    /\ At("Connect.close")
    /\ dev' = 0
    /\ pc' = Goto("Connect.get")
    /\ UNCHANGED <<entVars, connected, discErr, deviceType, handles, trace,
                   simulateButtonPress, simulateButtonType, op, arg,
                   disconnected, deferDev, baDev, msg, connErr, baRet, result,
                   cur, leaked>>

\* ------------------------------------------------------------ Connect
\* Connect, first half: close any existing connection
ConnectClose ==
    /\ At("Connect.close")
    /\ IF dev # 0
       THEN /\ handles' = Closed(handles, dev)
            /\ trace' = Append(trace, Ev("close", dev, "Connect"))
            /\ dev' = 0
       ELSE UNCHANGED <<handles, trace, dev>>
    /\ pc' = Goto("Connect.get")
    /\ UNCHANGED <<entVars, connected, discErr, deviceType, simulateButtonPress, simulateButtonType, op, arg,
                   disconnected, deferDev, baDev, msg, connErr, baRet, result,
                   cur, leaked>>

\* Connect, second half: d.Driver.GetDevice()
ConnectGetDevice ==
    /\ At("Connect.get")
    /\ \E ok \in BOOLEAN :
        IF ok /\ Len(handles) < MaxHandles
        THEN /\ handles' = Append(handles, 0)
             /\ dev' = Len(handles) + 1
             /\ trace' = Append(trace, Ev("open", Len(handles) + 1, "GetDevice"))
             /\ connErr' = "nil"
        ELSE /\ trace' = Append(trace, Ev("openFail", 0, "GetDevice"))
             /\ connErr' = "ErrOpen"
             /\ UNCHANGED <<handles, dev>>
    /\ pc' = Tail(pc)
    /\ UNCHANGED <<entVars, connected, discErr, deviceType, simulateButtonPress, simulateButtonType, op, arg,
                   disconnected, deferDev, baDev, msg, baRet, result, cur, leaked>>

\* ------------------------------------------------- driver and transport
\* outcomes of one d.Driver.SendToDevice(dev, chunks): all frames are written,
\* then one logical message is read; a closed handle fails the write
SendOutcomes(h) ==
    IF IsOpen(h) THEN {"ErrWrite", "ErrRead"} \cup Replies ELSE {"ErrWrite"}

\* the transport calls SendToDevice makes, appended to tr
SendTrace(tr, h, frame, out) ==
    IF out = "ErrWrite" THEN Append(tr, Ev("writeFail", h, frame))
    ELSE IF out = "ErrRead"
         THEN tr \o <<Ev("write", h, frame), Ev("readFail", h, frame)>>
         ELSE tr \o <<Ev("write", h, frame), Ev("read", h, out)>>

\* outcomes of one write of a frame on handle h (dev.Write, sendToDeviceNoAnswer)
WriteOutcomes(h) == IF IsOpen(h) THEN {"ok", "ErrWrite"} ELSE {"ErrWrite"}

WriteTrace(tr, h, frame, out) ==
    Append(tr, Ev(IF out = "ok" THEN "write" ELSE "writeFail", h, frame))

\* outcomes of one wire.ReadFrom(dev)
ReadOutcomes(h) == IF IsOpen(h) THEN {"ErrRead"} \cup Replies ELSE {"ErrRead"}

ReadTrace(tr, h, out) ==
    Append(tr, IF out = "ErrRead" THEN Ev("readFail", h, "") ELSE Ev("read", h, out))

\* ------------------------------------------------- public operations
\* the argument check of each operation, made after Connect
Invalid(o, a) ==
    \/ o = "AddressGen" /\ a = 0
    \/ o \in {"ApplySettings", "ChangePin"} /\ a = 0
    \/ o \in {"GenerateMnemonic", "Recovery"} /\ a # 12 /\ a # 24

ValidationErr(o) ==
    CASE o = "AddressGen" -> "ErrAddressNZero"
      [] o = "ApplySettings" -> "ErrUsePassPhraseNil"
      [] o = "ChangePin" -> "ErrRemovePinNil"
      [] OTHER -> "ErrInvalidWordCount"

\* the request each operation sends
Request(o) == o

\* entry of operation o with argument a, its locals fresh; stack is where
\* it starts, tr and res are the calls made and the result of an operation
\* that returns at once.  Handles are numbered per operation: the handle
\* held on entry, if any, becomes handle 1 and keeps its count of closes;
\* handles no longer referenced are dropped.
Start(o, a, stack, tr, res) ==
    /\ Idle
    /\ op' = o
    /\ arg' = a
    /\ pc' = stack
    /\ trace' = tr
    /\ disconnected' = FALSE
    /\ deferDev' = 0
    /\ baDev' = 0
    /\ msg' = Empty
    /\ connErr' = "nil"
    /\ baRet' = NoResult
    /\ result' = res
    /\ connected' = FALSE
    /\ discErr' = "nil"
    /\ receivedEntropyBytes' = 0
    /\ sink' = <<>>
    /\ requests' = <<>>
    /\ replies' = <<>>
    /\ entErr' = "nil"
    /\ dev' = IF dev = 0 THEN 0 ELSE 1
    /\ handles' = IF dev = 0 THEN <<>> ELSE <<handles[dev]>>
    /\ UNCHANGED <<deviceType, cur, leaked>>

\* entry of an operation that begins with d.Connect()
Enter(o, a, label) ==
    /\ Start(o, a, <<"Connect.close", label>>, <<>>, NoResult)
    /\ UNCHANGED <<simulateButtonPress, simulateButtonType, usingStdout>>

\* return of an operation with its deferred close: the simple operations
\* close the handle captured by the defer statement, the others close d.dev
\* unless disconnected was set
OpReturn(tr, res) ==
    LET h == IF op \in SimpleOps THEN deferDev ELSE dev
        closes == IF op \in SimpleOps THEN TRUE ELSE ~disconnected
    IN /\ handles' = IF closes THEN Closed(handles, h) ELSE handles
       /\ trace' = IF closes THEN Append(tr, Ev("close", h, "defer")) ELSE tr
       /\ result' = res
       /\ pc' = <<"done">>

AddressGen == \E n \in {0, 1} : Enter("AddressGen", n, "Op.connected")

ApplySettings == \E usePassphrase \in {0, 1} : Enter("ApplySettings", usePassphrase, "Op.connected")

Cancel == Enter("Cancel", 1, "Op.connected")

CheckMessageSignature == Enter("CheckMessageSignature", 1, "Op.connected")

GetFeatures == Enter("GetFeatures", 1, "Op.connected")

TransactionSign == Enter("TransactionSign", 1, "Op.connected")

PassphraseAck == Enter("PassphraseAck", 1, "Op.connected")

WordAck == Enter("WordAck", 1, "Op.connected")

PinMatrixAck == Enter("PinMatrixAck", 1, "Op.connected")

ChangePin == \E removePin \in {0, 1} : Enter("ChangePin", removePin, "Op.connected")

GenerateMnemonic == \E wordCount \in {12, 13} : Enter("GenerateMnemonic", wordCount, "Op.connected")

Recovery == \E wordCount \in {24, 0} : Enter("Recovery", wordCount, "Op.connected")

SetMnemonic == Enter("SetMnemonic", 1, "Op.connected")

SignMessage == Enter("SignMessage", 1, "Op.connected")

Wipe == Enter("Wipe", 1, "Op.connected")

Backup == Enter("Backup", 1, "Op.connected")

\* after Connect: its error is returned as is; otherwise the close is
\* deferred, the argument is checked and the request is built
OpConnected ==
    /\ At("Op.connected")
    /\ IF connErr # "nil"
       THEN /\ result' = Res(Empty, connErr)
            /\ pc' = <<"done">>
            /\ UNCHANGED <<handles, trace, deferDev>>
       ELSE IF Invalid(op, arg)
            THEN /\ deferDev' = IF op \in SimpleOps THEN dev ELSE deferDev
                 /\ LET h == dev
                    IN /\ handles' = Closed(handles, h)
                       /\ trace' = Append(trace, Ev("close", h, "defer"))
                 /\ result' = Res(Empty, ValidationErr(op))
                 /\ pc' = <<"done">>
            ELSE /\ deferDev' = IF op \in SimpleOps THEN dev ELSE deferDev
                 /\ pc' = <<"Op.send">>
                 /\ UNCHANGED <<handles, trace, result>>
    /\ UNCHANGED <<entVars, connected, discErr, deviceType, dev, simulateButtonPress, simulateButtonType, op,
                   arg, disconnected, baDev, msg, connErr, baRet, cur, leaked>>

\* the exchange of the request, and what the operation does with the reply
OpSend ==
    /\ At("Op.send")
    /\ \E out \in SendOutcomes(dev) :
        LET tr == SendTrace(trace, dev, Request(op), out)
        IN IF out \notin Kinds
           THEN /\ OpReturn(tr, Res(Empty, out))
                /\ UNCHANGED <<msg, disconnected>>
           ELSE IF op \in SimpleOps \/ out # "ButtonRequest"
                THEN /\ OpReturn(tr, Res(out, "nil"))
                     /\ msg' = out
                     /\ UNCHANGED disconnected
                ELSE /\ msg' = out
                     /\ disconnected' = TRUE
                     /\ trace' = tr
                     /\ pc' = <<"Connect.close", "ButtonAck.connected",
                                IF op = "Backup" THEN "Backup.loop" ELSE "Op.ackret">>
                     /\ UNCHANGED <<handles, result>>
    /\ UNCHANGED <<entVars, connected, discErr, deviceType, dev, simulateButtonPress, simulateButtonType, op,
                   arg, deferDev, baDev, connErr, baRet, cur, leaked>>

\* OpAckReturn with the error of ButtonAck dropped
OpAckReturnDropsErr ==
    /\ At("Op.ackret")
    /\ OpReturn(trace, Res(baRet.msg, "nil"))
    /\ UNCHANGED <<entVars, connected, discErr, deviceType, dev, simulateButtonPress,
                   simulateButtonType, op, arg, disconnected, deferDev, baDev, msg,
                   connErr, baRet, cur, leaked>>

\* `return d.ButtonAck()` of ChangePin, GenerateMnemonic, Recovery,
\* SetMnemonic, SignMessage and Wipe
OpAckReturn ==
    /\ At("Op.ackret")
    /\ OpReturn(trace, baRet)
    /\ UNCHANGED <<entVars, connected, discErr, deviceType, dev, simulateButtonPress, simulateButtonType, op,
                   arg, disconnected, deferDev, baDev, msg, connErr, baRet, cur,
                   leaked>>

\* BackupLoop returning what its first ButtonAck returned
BackupLoopOnce ==
    /\ At("Backup.loop")
    /\ IF baRet.err # "nil"
       THEN /\ OpReturn(trace, Res(Empty, baRet.err))
            /\ UNCHANGED msg
       ELSE /\ msg' = baRet.msg
            /\ OpReturn(trace, Res(baRet.msg, "nil"))
    /\ UNCHANGED <<entVars, connected, discErr, deviceType, dev, simulateButtonPress, simulateButtonType, op,
                   arg, disconnected, deferDev, baDev, connErr, baRet, cur, leaked>>

\* the loop of Backup after a ButtonAck returned
BackupLoop ==
    /\ At("Backup.loop")
    /\ IF baRet.err # "nil"
       THEN /\ OpReturn(trace, Res(Empty, baRet.err))
            /\ UNCHANGED msg
       ELSE IF baRet.msg = "ButtonRequest"
            THEN /\ msg' = baRet.msg
                 /\ pc' = <<"Connect.close", "ButtonAck.connected", "Backup.loop">>
                 /\ UNCHANGED <<handles, trace, result>>
            ELSE /\ msg' = baRet.msg
                 /\ OpReturn(trace, Res(baRet.msg, "nil"))
    /\ UNCHANGED <<entVars, connected, discErr, deviceType, dev, simulateButtonPress, simulateButtonType, op,
                   arg, disconnected, deferDev, baDev, connErr, baRet, cur, leaked>>


\* ------------------------------------------------------------ ButtonAck
ButtonAck == Enter("ButtonAck", 1, "ButtonAck.connected")

\* return of ButtonAck, to its caller or as the public operation; deferred
\* is whether `defer d.dev.Close(false)` was reached
BAReturn(tr, res, deferred) ==
    /\ handles' = IF deferred THEN Closed(handles, baDev) ELSE handles
    /\ trace' = IF deferred THEN Append(tr, Ev("close", baDev, "defer")) ELSE tr
    /\ baRet' = res
    /\ IF Tail(pc) = <<>>
       THEN pc' = <<"done">> /\ result' = res
       ELSE pc' = Tail(pc) /\ UNCHANGED result

ButtonAckConnected ==
    /\ At("ButtonAck.connected")
    /\ IF connErr # "nil"
       THEN /\ BAReturn(trace, Res(Empty, connErr), FALSE)
            /\ UNCHANGED baDev
       ELSE /\ baDev' = dev
            /\ pc' = Goto("ButtonAck.send")
            /\ UNCHANGED <<handles, trace, baRet, result>>
    /\ UNCHANGED <<entVars, connected, discErr, deviceType, dev, simulateButtonPress, simulateButtonType, op,
                   arg, disconnected, deferDev, msg, connErr, cur, leaked>>

\* sendToDeviceNoAnswer(d.dev, buttonChunks)
ButtonAckSend ==
    /\ At("ButtonAck.send")
    /\ \E out \in WriteOutcomes(dev) :
        LET tr == WriteTrace(trace, dev, "ButtonAck", out)
        IN IF out # "ok"
           THEN BAReturn(tr, Res(Empty, out), TRUE)
           ELSE /\ trace' = tr
                /\ pc' = Goto(IF simulateButtonPress THEN "ButtonAck.simulate"
                              ELSE "ButtonAck.read")
                /\ UNCHANGED <<handles, baRet, result>>
    /\ UNCHANGED <<entVars, connected, discErr, deviceType, dev, simulateButtonPress, simulateButtonType, op,
                   arg, disconnected, deferDev, baDev, msg, connErr, cur, leaked>>

\* SimulateButtonPress: its outcomes on handle h
SimulateOutcomes(h) ==
    IF deviceType # "Emulator" THEN {"ErrWrongDeviceType"} ELSE WriteOutcomes(h)

SimulateTrace(tr, h, out) ==
    IF out = "ErrWrongDeviceType" THEN tr ELSE WriteTrace(tr, h, "SimulateButtonPress", out)

ButtonAckSimulate ==
    /\ At("ButtonAck.simulate")
    /\ \E out \in SimulateOutcomes(dev) :
        LET tr == SimulateTrace(trace, dev, out)
        IN IF out # "ok"
           THEN BAReturn(tr, Res(Empty, out), TRUE)
           ELSE /\ trace' = tr
                /\ pc' = Goto("ButtonAck.read")
                /\ UNCHANGED <<handles, baRet, result>>
    /\ UNCHANGED <<entVars, connected, discErr, deviceType, dev, simulateButtonPress, simulateButtonType, op,
                   arg, disconnected, deferDev, baDev, msg, connErr, cur, leaked>>

\* the first read and the test of the loop
ButtonAckRead ==
    /\ At("ButtonAck.read")
    /\ \E out \in ReadOutcomes(dev) :
        LET tr == ReadTrace(trace, dev, out)
        IN IF out = "ErrRead"
           THEN /\ BAReturn(tr, Res(Empty, out), TRUE)
                /\ UNCHANGED <<msg, cur>>
           ELSE IF out = "EntropyRequest"
                THEN /\ msg' = out
                     /\ cur' = 1
                     /\ trace' = tr
                     /\ pc' = Goto("ButtonAck.readnext")
                     /\ UNCHANGED <<handles, baRet, result>>
                ELSE /\ msg' = out
                     /\ BAReturn(tr, Res(out, "nil"), TRUE)
                     /\ UNCHANGED cur
    /\ UNCHANGED <<entVars, connected, discErr, deviceType, dev, simulateButtonPress, simulateButtonType, op,
                   arg, disconnected, deferDev, baDev, connErr, leaked>>

\* the read inside the loop, while the entropy-ack task may still run; when
\* it fails ButtonAck returns without waiting for the task
ButtonAckReadNext ==
    /\ At("ButtonAck.readnext")
    /\ \E out \in ReadOutcomes(dev) :
        LET tr == ReadTrace(trace, dev, out)
        IN IF out = "ErrRead"
           THEN /\ leaked + cur <= MaxLeaked
                /\ BAReturn(tr, Res(Empty, out), TRUE)
                /\ leaked' = leaked + cur
                /\ cur' = 0
                /\ UNCHANGED msg
           ELSE /\ msg' = out
                /\ trace' = tr
                /\ pc' = Goto("ButtonAck.wait")
                /\ UNCHANGED <<handles, baRet, result, cur, leaked>>
    /\ UNCHANGED <<entVars, connected, discErr, deviceType, dev, simulateButtonPress, simulateButtonType, op,
                   arg, disconnected, deferDev, baDev, connErr>>

\* ButtonAckWait without wg.Wait(): the kind is tested while the task may run
ButtonAckNoWait ==
    /\ At("ButtonAck.wait")
    /\ IF msg = "EntropyRequest"
       THEN /\ cur' = 1
            /\ pc' = Goto("ButtonAck.readnext")
            /\ UNCHANGED <<handles, trace, baRet, result>>
       ELSE /\ BAReturn(trace, Res(msg, "nil"), TRUE)
            /\ UNCHANGED cur
    /\ UNCHANGED <<entVars, connected, discErr, deviceType, dev, simulateButtonPress, simulateButtonType, op,
                   arg, disconnected, deferDev, baDev, msg, connErr, leaked>>

\* wg.Wait() and the next test of the loop
ButtonAckWait ==
    /\ At("ButtonAck.wait")
    /\ cur = 0
    /\ IF msg = "EntropyRequest"
       THEN /\ cur' = 1
            /\ pc' = Goto("ButtonAck.readnext")
            /\ UNCHANGED <<handles, trace, baRet, result>>
       ELSE /\ BAReturn(trace, Res(msg, "nil"), TRUE)
            /\ UNCHANGED cur
    /\ UNCHANGED <<entVars, connected, discErr, deviceType, dev, simulateButtonPress, simulateButtonType, op,
                   arg, disconnected, deferDev, baDev, msg, connErr, leaked>>

\* ----------------------------------------------- the entropy-ack write task
\* the goroutine of the running loop: one d.dev.Write of the entropy-ack
\* frame, its error only logged
EntropyAckTask ==
    /\ cur = 1
    /\ \E out \in WriteOutcomes(dev) :
        trace' = WriteTrace(trace, dev, "EntropyAck", out)
    /\ cur' = 0
    /\ UNCHANGED <<entVars, connected, discErr, devVars, op, arg, pc, disconnected, deferDev, baDev, msg,
                   connErr, baRet, result, leaked>>

\* the same goroutine after its function returned: it writes on whatever
\* d.dev is by then (nil, a closed handle, or the handle of a later
\* operation); the write changes nothing the engine reads
LeakedAckTask ==
    /\ leaked > 0
    /\ leaked' = leaked - 1
    /\ UNCHANGED <<entVars, connected, discErr, devVars, op, arg, pc, disconnected,
                   deferDev, baDev, msg, connErr, baRet, result, trace, cur>>


\* ------------------------------------------------------------ Connected
Bool(b) == IF b THEN "true" ELSE "false"

Connected ==
    /\ Start("Connected", 1, <<"Connected.probe">>, <<>>, NoResult)
    /\ UNCHANGED <<simulateButtonPress, simulateButtonType, usingStdout>>

\* return of Connected, to Disconnect or as the public operation
ConnReturn(tr, b) ==
    /\ connected' = b
    /\ trace' = tr
    /\ IF Tail(pc) = <<>>
       THEN pc' = <<"done">> /\ result' = Res(Bool(b), "nil")
       ELSE pc' = Tail(pc) /\ UNCHANGED result

\* the nil test and the write of the probe
ConnectedProbe ==
    /\ At("Connected.probe")
    /\ IF dev = 0
       THEN ConnReturn(trace, FALSE)
       ELSE \E out \in WriteOutcomes(dev) :
              LET tr == WriteTrace(trace, dev, "Connected", out)
              IN IF out # "ok"
                 THEN ConnReturn(tr, FALSE)
                 ELSE /\ trace' = tr
                      /\ pc' = Goto("Connected.read")
                      /\ UNCHANGED <<connected, result>>
    /\ UNCHANGED <<entVars, discErr, devVars, op, arg, disconnected, deferDev,
                   baDev, msg, connErr, baRet, cur, leaked>>

\* the first read and the test of the loop
ConnectedRead ==
    /\ At("Connected.read")
    /\ \E out \in ReadOutcomes(dev) :
        LET tr == ReadTrace(trace, dev, out)
        IN IF out = "ErrRead"
           THEN /\ ConnReturn(tr, FALSE)
                /\ UNCHANGED <<msg, cur>>
           ELSE IF out = "EntropyRequest"
                THEN /\ msg' = out
                     /\ cur' = 1
                     /\ trace' = tr
                     /\ pc' = Goto("Connected.readnext")
                     /\ UNCHANGED <<connected, result>>
                ELSE /\ msg' = out
                     /\ ConnReturn(tr, out = "Success")
                     /\ UNCHANGED cur
    /\ UNCHANGED <<entVars, discErr, devVars, op, arg, disconnected, deferDev,
                   baDev, connErr, baRet, leaked>>

\* the read inside the loop, while the entropy-ack task may still run; when
\* it fails Connected returns false without waiting for the task
ConnectedReadNext ==
    /\ At("Connected.readnext")
    /\ \E out \in ReadOutcomes(dev) :
        LET tr == ReadTrace(trace, dev, out)
        IN IF out = "ErrRead"
           THEN /\ leaked + cur <= MaxLeaked
                /\ ConnReturn(tr, FALSE)
                /\ leaked' = leaked + cur
                /\ cur' = 0
                /\ UNCHANGED msg
           ELSE /\ msg' = out
                /\ trace' = tr
                /\ pc' = Goto("Connected.wait")
                /\ UNCHANGED <<connected, result, cur, leaked>>
    /\ UNCHANGED <<entVars, discErr, devVars, op, arg, disconnected, deferDev,
                   baDev, connErr, baRet>>

\* wg.Wait() and the next test of the loop
ConnectedWait ==
    /\ At("Connected.wait")
    /\ cur = 0
    /\ IF msg = "EntropyRequest"
       THEN /\ cur' = 1
            /\ pc' = Goto("Connected.readnext")
            /\ UNCHANGED <<trace, connected, result>>
       ELSE /\ ConnReturn(trace, msg = "Success")
            /\ UNCHANGED cur
    /\ UNCHANGED <<entVars, discErr, devVars, op, arg, disconnected, deferDev,
                   baDev, msg, connErr, baRet, leaked>>

\* ------------------------------------------------------------ Disconnect
Disconnect ==
    /\ Start("Disconnect", 1, <<"Connected.probe", "Disconnect.check">>, <<>>, NoResult)
    /\ UNCHANGED <<simulateButtonPress, simulateButtonType, usingStdout>>

\* after Connected returned: the error, or the close of d.dev
DisconnectCheck ==
    /\ At("Disconnect.check")
    /\ LET e == IF connected THEN "nil" ELSE "ErrNotConnected"
       IN /\ discErr' = e
          /\ IF connected
             THEN /\ handles' = Closed(handles, dev)
                  /\ trace' = Append(trace, Ev("close", dev, "Disconnect"))
             ELSE UNCHANGED <<handles, trace>>
          /\ IF Tail(pc) = <<>>
             THEN pc' = <<"done">> /\ result' = Res(Empty, e)
             ELSE pc' = Tail(pc) /\ UNCHANGED result
    /\ UNCHANGED <<entVars, connected, deviceType, dev, simulateButtonPress,
                   simulateButtonType, op, arg, disconnected, deferDev, baDev,
                   msg, connErr, baRet, cur, leaked>>

\* ------------------------------------------------------------ GetUsbInfo
\* d.Driver.GetDeviceInfos(): appended to tr, and the error it returns
InfosTrace(tr, ok) == Append(tr, Ev("enumerate", 0, Bool(ok)))

InfosErr(ok) == IF ok THEN "nil" ELSE "ErrEnumerate"

\* on a USB driver Connect and Disconnect come first
GetUsbInfo ==
    /\ IF deviceType = "USB"
       THEN Start("GetUsbInfo", 1, <<"Connect.close", "GetUsbInfo.connected">>,
                  <<>>, NoResult)
       ELSE \E ok \in BOOLEAN :
              Start("GetUsbInfo", 1, <<"done">>, InfosTrace(<<>>, ok),
                    Res(Empty, InfosErr(ok)))
    /\ UNCHANGED <<simulateButtonPress, simulateButtonType, usingStdout>>

\* after Connect: its error is returned, otherwise Disconnect is called
GetUsbInfoConnected ==
    /\ At("GetUsbInfo.connected")
    /\ IF connErr # "nil"
       THEN /\ result' = Res(Empty, connErr)
            /\ pc' = <<"done">>
       ELSE /\ pc' = <<"Connected.probe", "Disconnect.check", "GetUsbInfo.infos">>
            /\ UNCHANGED result
    /\ UNCHANGED <<entVars, connected, discErr, devVars, op, arg, disconnected,
                   deferDev, baDev, msg, connErr, baRet, trace, cur, leaked>>

\* after Disconnect: its error is returned, otherwise the devices are listed
GetUsbInfoInfos ==
    /\ At("GetUsbInfo.infos")
    /\ IF discErr # "nil"
       THEN /\ result' = Res(Empty, discErr)
            /\ UNCHANGED trace
       ELSE \E ok \in BOOLEAN :
              /\ trace' = InfosTrace(trace, ok)
              /\ result' = Res(Empty, InfosErr(ok))
    /\ pc' = <<"done">>
    /\ UNCHANGED <<entVars, connected, discErr, devVars, op, arg, disconnected,
                   deferDev, baDev, msg, connErr, baRet, cur, leaked>>

\* ---------------------------------------------------- SetAutoPressButton
ButtonLeft == 0

\* button kinds passed by callers; 3 is no button
ButtonInputs == {ButtonLeft, 3}

ValidButton(t) == t \in {0, 1, 2}

\* SetAutoPressButton without the test of the device type
SetAutoPressButtonAnyDevice ==
    \E press \in BOOLEAN, type \in ButtonInputs :
        /\ Start("SetAutoPressButton", 1, <<"done">>, <<>>,
                 Res(Empty, IF press /\ ~ValidButton(type)
                            THEN "ErrInvalidButtonType" ELSE "nil"))
        /\ simulateButtonPress' = press
        /\ simulateButtonType' =
              IF press
              THEN (IF ValidButton(type) THEN type ELSE simulateButtonType)
              ELSE 3
        /\ UNCHANGED usingStdout

SetAutoPressButton ==
    \E press \in BOOLEAN, type \in ButtonInputs :
        /\ Start("SetAutoPressButton", 1, <<"done">>, <<>>,
                 Res(Empty, IF deviceType = "Emulator" /\ press /\ ~ValidButton(type)
                            THEN "ErrInvalidButtonType" ELSE "nil"))
        /\ IF deviceType = "Emulator"
           THEN /\ simulateButtonPress' = press
                /\ simulateButtonType' =
                      IF press
                      THEN (IF ValidButton(type) THEN type ELSE simulateButtonType)
                      ELSE 3
           ELSE UNCHANGED <<simulateButtonPress, simulateButtonType>>
        /\ UNCHANGED usingStdout


\* ------------------------------------------------------- FirmwareUpload
\* DecodeFailMsg(m) as the callers surface it: the text of a Failure
\* message, or the error of decoding a message that is no Failure; data
\* names the reply whose payload it is
DecodeFailMsg(kind, data) ==
    IF kind = "Failure" THEN "Failure:" \o data ELSE "ErrNotFailure:" \o data

\* FirmwareUpload without the test of the device type
FirmwareUploadNoTypeCheck ==
    /\ Start("FirmwareUpload", 1, <<"Connect.close", "FirmwareUpload.connected">>,
             <<>>, NoResult)
    /\ UNCHANGED <<simulateButtonPress, simulateButtonType, usingStdout>>

FirmwareUpload ==
    /\ IF deviceType # "USB"
       THEN Start("FirmwareUpload", 1, <<"done">>, <<>>, Res(Empty, "ErrDeviceTypeEmulator"))
       ELSE Start("FirmwareUpload", 1, <<"Connect.close", "FirmwareUpload.connected">>,
                  <<>>, NoResult)
    /\ UNCHANGED <<simulateButtonPress, simulateButtonType, usingStdout>>

\* return of FirmwareUpload after `defer d.dev.Close(false)`
FwReturn(tr, e) ==
    /\ handles' = Closed(handles, deferDev)
    /\ trace' = Append(tr, Ev("close", deferDev, "defer"))
    /\ result' = Res(Empty, e)
    /\ pc' = <<"done">>

\* after Connect: the deferred close and Initialize(d.dev), whose reply is
\* not looked at
FirmwareUploadInitialize ==
    /\ At("FirmwareUpload.connected")
    /\ IF connErr # "nil"
       THEN /\ result' = Res(Empty, connErr)
            /\ pc' = <<"done">>
            /\ UNCHANGED <<handles, trace, deferDev>>
       ELSE /\ deferDev' = dev
            /\ \E out \in SendOutcomes(dev) :
                LET tr == SendTrace(trace, dev, "Initialize", out)
                IN IF out \notin Kinds
                   THEN /\ handles' = Closed(handles, dev)
                        /\ trace' = Append(tr, Ev("close", dev, "defer"))
                        /\ result' = Res(Empty, out)
                        /\ pc' = <<"done">>
                   ELSE /\ trace' = tr
                        /\ pc' = <<"FirmwareUpload.erase">>
                        /\ UNCHANGED <<handles, result>>
    /\ UNCHANGED <<entVars, connected, discErr, deviceType, dev, simulateButtonPress,
                   simulateButtonType, op, arg, disconnected, baDev, msg, connErr,
                   baRet, cur, leaked>>

\* FirmwareUploadErase with the return of the Failure case missing
FirmwareUploadEraseFallsThrough ==
    /\ At("FirmwareUpload.erase")
    /\ \E out \in SendOutcomes(dev) :
        LET tr == SendTrace(trace, dev, "FirmwareErase", out)
        IN IF out \notin Kinds
           THEN /\ FwReturn(tr, out)
                /\ UNCHANGED msg
           ELSE /\ msg' = out
                /\ IF out \in {"Success", "Failure"}
                   THEN /\ trace' = tr
                        /\ pc' = <<"FirmwareUpload.upload">>
                        /\ UNCHANGED <<handles, result>>
                   ELSE IF out = "Failure"
                        THEN FwReturn(tr, DecodeFailMsg(out, "erase"))
                        ELSE FwReturn(tr, "ErrUnexpected:" \o out)
    /\ UNCHANGED <<entVars, connected, discErr, deviceType, dev, simulateButtonPress,
                   simulateButtonType, op, arg, disconnected, deferDev, baDev,
                   connErr, baRet, cur, leaked>>

\* the erase exchange and the switch on erasemsg.Kind
FirmwareUploadErase ==
    /\ At("FirmwareUpload.erase")
    /\ \E out \in SendOutcomes(dev) :
        LET tr == SendTrace(trace, dev, "FirmwareErase", out)
        IN IF out \notin Kinds
           THEN /\ FwReturn(tr, out)
                /\ UNCHANGED msg
           ELSE /\ msg' = out
                /\ IF out = "Success"
                   THEN /\ trace' = tr
                        /\ pc' = <<"FirmwareUpload.upload">>
                        /\ UNCHANGED <<handles, result>>
                   ELSE IF out = "Failure"
                        THEN FwReturn(tr, DecodeFailMsg(out, "erase"))
                        ELSE FwReturn(tr, "ErrUnexpected:" \o out)
    /\ UNCHANGED <<entVars, connected, discErr, deviceType, dev, simulateButtonPress,
                   simulateButtonType, op, arg, disconnected, deferDev, baDev,
                   connErr, baRet, cur, leaked>>

\* FirmwareUploadUpload decoding the Failure reply of the upload itself
FirmwareUploadUploadOwnText ==
    /\ At("FirmwareUpload.upload")
    /\ \E out \in SendOutcomes(dev) :
        LET tr == SendTrace(trace, dev, "FirmwareUpload", out)
        IN IF out \notin Kinds
           THEN FwReturn(tr, out)
           ELSE IF out = "ButtonRequest"
                THEN /\ trace' = tr
                     /\ pc' = <<"FirmwareUpload.ack">>
                     /\ UNCHANGED <<handles, result>>
                ELSE IF out = "Failure"
                     THEN FwReturn(tr, DecodeFailMsg(out, "upload"))
                     ELSE FwReturn(tr, "ErrUnexpected:" \o msg)
    /\ UNCHANGED <<entVars, connected, discErr, deviceType, dev, simulateButtonPress,
                   simulateButtonType, op, arg, disconnected, deferDev, baDev, msg,
                   connErr, baRet, cur, leaked>>

\* the upload exchange and the switch on uploadmsg.Kind; msg is erasemsg
FirmwareUploadUpload ==
    /\ At("FirmwareUpload.upload")
    /\ \E out \in SendOutcomes(dev) :
        LET tr == SendTrace(trace, dev, "FirmwareUpload", out)
        IN IF out \notin Kinds
           THEN FwReturn(tr, out)
           ELSE IF out = "ButtonRequest"
                THEN /\ trace' = tr
                     /\ pc' = <<"FirmwareUpload.ack">>
                     /\ UNCHANGED <<handles, result>>
                ELSE IF out = "Failure"
                     THEN FwReturn(tr, DecodeFailMsg(msg, "erase"))
                     ELSE FwReturn(tr, "ErrUnexpected:" \o msg)
    /\ UNCHANGED <<entVars, connected, discErr, deviceType, dev, simulateButtonPress,
                   simulateButtonType, op, arg, disconnected, deferDev, baDev, msg,
                   connErr, baRet, cur, leaked>>

\* FirmwareUploadButtonAck with the default case returning nil
FirmwareUploadButtonAckLax ==
    /\ At("FirmwareUpload.ack")
    /\ \E out \in SendOutcomes(dev) :
        LET tr == SendTrace(trace, dev, "ButtonAck", out)
        IN IF out \notin Kinds
           THEN FwReturn(tr, out)
           ELSE IF out = "Success"
                THEN FwReturn(tr, "nil")
                ELSE IF out = "Failure"
                     THEN FwReturn(tr, DecodeFailMsg(out, "ack"))
                     ELSE FwReturn(tr, "nil")
    /\ UNCHANGED <<entVars, connected, discErr, deviceType, dev, simulateButtonPress,
                   simulateButtonType, op, arg, disconnected, deferDev, baDev, msg,
                   connErr, baRet, cur, leaked>>

\* the ButtonAck exchange and the switch on resp.Kind
FirmwareUploadButtonAck ==
    /\ At("FirmwareUpload.ack")
    /\ \E out \in SendOutcomes(dev) :
        LET tr == SendTrace(trace, dev, "ButtonAck", out)
        IN IF out \notin Kinds
           THEN FwReturn(tr, out)
           ELSE IF out = "Success"
                THEN FwReturn(tr, "nil")
                ELSE IF out = "Failure"
                     THEN FwReturn(tr, DecodeFailMsg(out, "ack"))
                     ELSE FwReturn(tr, "ErrUnknownResponse")
    /\ UNCHANGED <<entVars, connected, discErr, deviceType, dev, simulateButtonPress,
                   simulateButtonType, op, arg, disconnected, deferDev, baDev, msg,
                   connErr, baRet, cur, leaked>>

\* ---------------------------------------------- SaveDeviceEntropyInFile
\* entry: unless outFile is "-" the file is created first; created is
\* whether os.Create succeeds
SaveDeviceEntropyInFile ==
    \E stdout \in BOOLEAN, entropyBytes \in 0..MaxTotal, created \in BOOLEAN :
        /\ IF ~stdout /\ ~created
           THEN Start("SaveDeviceEntropyInFile", entropyBytes, <<"done">>, <<>>,
                      Res(Empty, "ErrCreate"))
           ELSE Start("SaveDeviceEntropyInFile", entropyBytes,
                      <<"Connect.close", "Entropy.connected">>, <<>>, NoResult)
        /\ usingStdout' = stdout
        /\ UNCHANGED <<simulateButtonPress, simulateButtonType>>

\* payload lengths the device may answer the next entropy request with
ChunkLens == {n \in 0..MaxChunk : n = 0 => Len(requests) < MaxRequests}

\* checkProducedFile: the size of the file is what was written to it
CheckProducedFile(stdout, written, entropyBytes) ==
    IF ~stdout /\ Sum(written) # entropyBytes THEN "ErrFileSize" ELSE "nil"

\* a return statement of SaveDeviceEntropyInFile with error e, reached after
\* the Disconnect was deferred
EntropyExit(tr, e) ==
    /\ entErr' = e
    /\ trace' = tr
    /\ pc' = <<"Entropy.return">>

\* EntropyProcess with the loop test receivedEntropyBytes <= entropyBytes
EntropyProcessOffByOne(tr, out, n, wrote) ==
    IF out = "Entropy"
    THEN LET received == receivedEntropyBytes + n
         IN /\ receivedEntropyBytes' = received
            /\ replies' = Append(replies, n)
            /\ IF ~wrote /\ ~usingStdout
               THEN /\ EntropyExit(tr, "ErrSink")
                    /\ UNCHANGED sink
               ELSE /\ sink' = Append(sink, n)
                    /\ IF received <= arg
                       THEN /\ trace' = tr
                            /\ pc' = <<"Entropy.request">>
                            /\ UNCHANGED entErr
                       ELSE EntropyExit(tr, CheckProducedFile(usingStdout, Append(sink, n), arg))
    ELSE IF out = "ButtonRequest"
         THEN /\ trace' = tr
              /\ pc' = <<"Entropy.ack">>
              /\ UNCHANGED <<receivedEntropyBytes, sink, replies, entErr>>
         ELSE /\ EntropyExit(tr, DecodeFailMsg(out, "reply"))
              /\ UNCHANGED <<receivedEntropyBytes, sink, replies>>

\* EntropyProcess acknowledging a ButtonRequest on a fresh connection
EntropyProcessReconnects(tr, out, n, wrote) ==
    IF out = "Entropy"
    THEN LET received == receivedEntropyBytes + n
         IN /\ receivedEntropyBytes' = received
            /\ replies' = Append(replies, n)
            /\ IF ~wrote /\ ~usingStdout
               THEN /\ EntropyExit(tr, "ErrSink")
                    /\ UNCHANGED sink
               ELSE /\ sink' = Append(sink, n)
                    /\ IF received < arg
                       THEN /\ trace' = tr
                            /\ pc' = <<"Entropy.request">>
                            /\ UNCHANGED entErr
                       ELSE EntropyExit(tr, CheckProducedFile(usingStdout, Append(sink, n), arg))
    ELSE IF out = "ButtonRequest"
         THEN /\ trace' = tr
              /\ pc' = <<"Connect.close", "Entropy.ack">>
              /\ UNCHANGED <<receivedEntropyBytes, sink, replies, entErr>>
         ELSE /\ EntropyExit(tr, DecodeFailMsg(out, "reply"))
              /\ UNCHANGED <<receivedEntropyBytes, sink, replies>>

\* processGetEntropyResponse on a message of kind out, and what the caller
\* does with the entropy: n is the length of its payload, wrote is whether
\* processBytes succeeds
EntropyProcess(tr, out, n, wrote) ==
    IF out = "Entropy"
    THEN LET received == receivedEntropyBytes + n
         IN /\ receivedEntropyBytes' = received
            /\ replies' = Append(replies, n)
            /\ IF ~wrote /\ ~usingStdout
               THEN /\ EntropyExit(tr, "ErrSink")
                    /\ UNCHANGED sink
               ELSE /\ sink' = Append(sink, n)
                    /\ IF received < arg
                       THEN /\ trace' = tr
                            /\ pc' = <<"Entropy.request">>
                            /\ UNCHANGED entErr
                       ELSE EntropyExit(tr, CheckProducedFile(usingStdout, Append(sink, n), arg))
    ELSE IF out = "ButtonRequest"
         THEN /\ trace' = tr
              /\ pc' = <<"Entropy.ack">>
              /\ UNCHANGED <<receivedEntropyBytes, sink, replies, entErr>>
         ELSE /\ EntropyExit(tr, DecodeFailMsg(out, "reply"))
              /\ UNCHANGED <<receivedEntropyBytes, sink, replies>>

\* after Connect: its error is returned, otherwise Disconnect is deferred
EntropyConnected ==
    /\ At("Entropy.connected")
    /\ IF connErr # "nil"
       THEN /\ result' = Res(Empty, connErr)
            /\ pc' = <<"done">>
       ELSE /\ pc' = <<"Entropy.request">>
            /\ UNCHANGED result
    /\ UNCHANGED <<entVars, connected, discErr, devVars, op, arg, disconnected,
                   deferDev, baDev, msg, connErr, baRet, trace, cur, leaked>>

\* getEntropy(entropyBytes - receivedEntropyBytes): the exchange and the
\* processing of its reply.  The request is made only while fewer bytes
\* than entropyBytes were received (or first, with none received), so the
\* uint32 difference does not wrap.
GetEntropy ==
    /\ At("Entropy.request")
    /\ LET bytes == arg - receivedEntropyBytes
       IN /\ requests' = Append(requests, bytes)
          /\ \E out \in SendOutcomes(dev), n \in ChunkLens, wrote \in BOOLEAN :
                LET tr == SendTrace(trace, dev, "GetEntropy", out)
                IN IF out \notin Kinds
                   THEN /\ EntropyExit(tr, out)
                        /\ UNCHANGED <<receivedEntropyBytes, sink, replies, msg>>
                   ELSE /\ msg' = out
                        /\ EntropyProcess(tr, out, n, wrote)
    /\ UNCHANGED <<usingStdout, connected, discErr, devVars, op, arg, disconnected,
                   deferDev, baDev, connErr, baRet, result, cur, leaked>>

\* the ButtonAck of processGetEntropyResponse
EntropyButtonAck ==
    /\ At("Entropy.ack")
    /\ \E out \in WriteOutcomes(dev) :
        LET tr == WriteTrace(trace, dev, "ButtonAck", out)
        IN IF out # "ok"
           THEN EntropyExit(tr, out)
           ELSE /\ trace' = tr
                /\ pc' = <<IF simulateButtonPress THEN "Entropy.simulate"
                           ELSE "Entropy.read">>
                /\ UNCHANGED entErr
    /\ UNCHANGED <<usingStdout, receivedEntropyBytes, sink, requests, replies, connected,
                   discErr, devVars, op, arg, disconnected, deferDev, baDev, msg,
                   connErr, baRet, result, cur, leaked>>

\* its simulated button press
EntropySimulate ==
    /\ At("Entropy.simulate")
    /\ \E out \in SimulateOutcomes(dev) :
        LET tr == SimulateTrace(trace, dev, out)
        IN IF out # "ok"
           THEN EntropyExit(tr, out)
           ELSE /\ trace' = tr
                /\ pc' = <<"Entropy.read">>
                /\ UNCHANGED entErr
    /\ UNCHANGED <<usingStdout, receivedEntropyBytes, sink, requests, replies, connected,
                   discErr, devVars, op, arg, disconnected, deferDev, baDev, msg,
                   connErr, baRet, result, cur, leaked>>

\* its read of the next message, processed in turn
EntropyRead ==
    /\ At("Entropy.read")
    /\ \E out \in ReadOutcomes(dev), n \in ChunkLens, wrote \in BOOLEAN :
        LET tr == ReadTrace(trace, dev, out)
        IN IF out = "ErrRead"
           THEN /\ EntropyExit(tr, out)
                /\ UNCHANGED <<receivedEntropyBytes, sink, replies, msg>>
           ELSE /\ msg' = out
                /\ EntropyProcess(tr, out, n, wrote)
    /\ UNCHANGED <<usingStdout, requests, connected, discErr, devVars, op, arg,
                   disconnected, deferDev, baDev, connErr, baRet, result, cur, leaked>>

\* the deferred Disconnect is called.  The locals of the stream end here:
\* what the stream wrote, asked and called is no longer recorded, and the
\* calls of Disconnect are recorded from an empty trace.
EntropyReturn ==
    /\ At("Entropy.return")
    /\ pc' = <<"Connected.probe", "Disconnect.check", "Entropy.deferred">>
    /\ trace' = <<>>
    /\ sink' = <<>>
    /\ requests' = <<>>
    /\ replies' = <<>>
    /\ receivedEntropyBytes' = 0
    /\ msg' = Empty
    /\ UNCHANGED <<usingStdout, entErr, connected, discErr, devVars, op, arg,
                   disconnected, deferDev, baDev, connErr, baRet, result, cur, leaked>>

\* after the deferred Disconnect, whose error is only logged
EntropyDeferred ==
    /\ At("Entropy.deferred")
    /\ result' = Res(Empty, entErr)
    /\ pc' = <<"done">>
    /\ UNCHANGED <<entVars, connected, discErr, devVars, op, arg, disconnected,
                   deferDev, baDev, msg, connErr, baRet, trace, cur, leaked>>


\* =================================================================
\* Properties
\* =================================================================
Done == pc = <<"done">>

\* positions of the trace whose call is one of types
TraceIdx(types) == {i \in 1..Len(trace) : trace[i][1] \in types}

Min(S) == CHOOSE x \in S : \A y \in S : x <= y

Max(S) == CHOOSE x \in S : \A y \in S : y <= x

\* a transport write or read of this operation failed
AnyIOFail == TraceIdx({"writeFail", "readFail"}) # {}

\* the kinds of the messages read, in order
ReadKinds ==
    LET R == SelectSeq(trace, LAMBDA e : e[1] = "read")
    IN [i \in 1..Len(R) |-> R[i][3]]

\* the frames written (or tried), in order
WrittenFrames ==
    LET W == SelectSeq(trace, LAMBDA e : e[1] \in {"write", "writeFail"})
    IN [i \in 1..Len(W) |-> W[i][3]]

IsPrefix(a, b) == Len(a) <= Len(b) /\ a = SubSeq(b, 1, Len(a))

\* the device's direct reply to the request of the operation
DirectReply ==
    LET I == {i \in 1..(Len(trace) - 1) :
                /\ trace[i][1] = "write" /\ trace[i][3] = Request(op)
                /\ trace[i + 1][1] = "read"}
    IN IF I = {} THEN "none" ELSE trace[Min(I) + 1][3]

\* C1: when the direct reply to ChangePin, GenerateMnemonic, Recovery,
\* SetMnemonic, SignMessage or Wipe is ButtonRequest, the operation returns
\* exactly what its one ButtonAck() call returned (message and error), and
\* the handle the operation opened is closed before that ButtonAck asks the
\* driver for its own handle.
C1_ButtonAckHandOff ==
    (Done /\ op \in ButtonOps /\ DirectReply = "ButtonRequest") =>
        LET opens == TraceIdx({"open", "openFail"})
            first == Min(opens)
            second == Max(opens)
        IN /\ result = baRet
           /\ Cardinality(opens) = 2
           /\ trace[first][1] = "open"
           /\ \E j \in (first + 1)..(second - 1) :
                  trace[j] = Ev("close", trace[first][2], "Connect")

C1_Witness ==
    /\ Done /\ op \in ButtonOps /\ DirectReply = "ButtonRequest"
    /\ result = Res("Success", "nil")
    /\ Cardinality(TraceIdx({"open"})) = 2

\* C2: Connected() returns true exactly when the message that ends the
\* drain is Success, and returns false (never an error) whenever a
\* transport write or read of the drain failed, a failed write of an
\* entropy-ack frame included.
C2_ConnectedDrain ==
    (Done /\ op = "Connected") =>
        /\ result.err = "nil"
        /\ result.msg = "true" <=>
              /\ ReadKinds # <<>>
              /\ ReadKinds[Len(ReadKinds)] = "Success"
              /\ ~AnyIOFail

\* the stream met no failure: every write and read succeeded, every reply
\* was Entropy or ButtonRequest, and the sink took every buffer
StreamClean ==
    /\ ~AnyIOFail
    /\ \A i \in 1..Len(ReadKinds) : ReadKinds[i] \in {"Entropy", "ButtonRequest"}
    /\ entErr \notin {"ErrSink", "ErrWrongDeviceType"}

\* C3: when SaveDeviceEntropyInFile is asked for T bytes and the Entropy
\* replies it gets sum to exactly T (and nothing fails), the sink receives
\* exactly the payloads of the replies, one write per reply and in their
\* order, T bytes in all; there are as many requests as replies, none
\* issued after the replies brought the count to T, and the operation
\* returns no error.  (The first request is issued before any reply.)
C3_EntropyStream ==
    /\ op = "SaveDeviceEntropyInFile" =>
          \A i \in 2..Len(requests) : Sum(SubSeq(replies, 1, i - 1)) < arg
    /\ (pc = <<"Entropy.return">> /\ StreamClean /\ Sum(replies) = arg) =>
          /\ sink = replies
          /\ Sum(sink) = arg
          /\ Len(requests) = Len(replies)
          /\ entErr = "nil"

C3_Witness ==
    /\ pc = <<"Entropy.return">> /\ StreamClean /\ Sum(replies) = arg
    /\ ~usingStdout
    /\ arg >= 2
    /\ Len(replies) >= 2
    /\ sink = replies

\* the erase exchange of FirmwareUpload failed or was not answered Success
EraseFailed ==
    \/ \E i \in 1..Len(trace) :
          /\ trace[i][1] \in {"writeFail", "readFail"}
          /\ trace[i][3] = "FirmwareErase"
    \/ \E i \in 1..(Len(trace) - 1) :
          /\ trace[i][1] = "write" /\ trace[i][3] = "FirmwareErase"
          /\ trace[i + 1][1] = "read" /\ trace[i + 1][3] # "Success"

\* C4: in FirmwareUpload, once the erase exchange failed or was answered
\* by anything but Success, no FirmwareUpload frame and no ButtonAck frame
\* is ever written, and the operation returns an error.
C4_EraseFailureStopsUpload ==
    (op = "FirmwareUpload" /\ EraseFailed) =>
        /\ \A i \in 1..Len(WrittenFrames) :
              WrittenFrames[i] \notin {"FirmwareUpload", "ButtonAck"}
        /\ Done => result.err \notin {"nil", "unset"}

C4_Witness ==
    /\ Done /\ op = "FirmwareUpload"
    /\ ReadKinds # <<>> /\ ReadKinds[Len(ReadKinds)] = "Failure"
    /\ WrittenFrames = <<"Initialize", "FirmwareErase">>
    /\ result.err = "Failure:erase"

\* C5: FirmwareUpload returns no error exactly when the erase request was
\* answered Success, the upload request ButtonRequest and the ButtonAck
\* Success, with no transport error; its requests go out in the order
\* Initialize, FirmwareErase, FirmwareUpload, ButtonAck, all on the one
\* handle it opened.
C5_FirmwareUploadSequence ==
    (op = "FirmwareUpload") =>
        /\ IsPrefix(WrittenFrames,
                    <<"Initialize", "FirmwareErase", "FirmwareUpload", "ButtonAck">>)
        /\ Cardinality(TraceIdx({"open", "openFail"})) <= 1
        /\ \A i \in TraceIdx({"write", "writeFail", "read", "readFail"}) :
              \E j \in 1..(i - 1) : trace[j] = Ev("open", trace[i][2], "GetDevice")
        /\ Done =>
              (result.err = "nil" <=>
                 /\ ~AnyIOFail
                 /\ Len(ReadKinds) = 4
                 /\ SubSeq(ReadKinds, 2, 4) = <<"Success", "ButtonRequest", "Success">>)

C5_Witness ==
    /\ Done /\ op = "FirmwareUpload"
    /\ result.err = "nil"
    /\ WrittenFrames = <<"Initialize", "FirmwareErase", "FirmwareUpload", "ButtonAck">>

\* C6: AddressGen(0, startIndex, confirm) returns ErrAddressNZero and makes
\* no call to the driver's open and no transport write or read.
C6_AddressGenZeroNoConnection ==
    (Done /\ op = "AddressGen" /\ arg = 0) =>
        /\ result = Res(Empty, "ErrAddressNZero")
        /\ trace = <<>>

\* C7: GenerateMnemonic and Recovery with a word count other than 12 and
\* 24, ChangePin with a nil removePin and ApplySettings with a nil
\* usePassphrase return their validation error without opening a
\* connection and with no transport call.
C7_ValidationNoConnection ==
    (Done /\ op \in {"GenerateMnemonic", "Recovery", "ChangePin", "ApplySettings"}
          /\ Invalid(op, arg)) =>
        /\ result = Res(Empty, ValidationErr(op))
        /\ trace = <<>>

\* C8: FirmwareUpload on a driver that is not USB returns
\* ErrDeviceTypeEmulator at once: no connection is opened, nothing is
\* written or read, and the held handle stays as it was.
C8_FirmwareUploadEmulator ==
    [][(Idle /\ op' = "FirmwareUpload" /\ deviceType # "USB") =>
          /\ pc' = <<"done">>
          /\ result' = Res(Empty, "ErrDeviceTypeEmulator")
          /\ trace' = <<>>
          /\ (dev = 0) = (dev' = 0)
          /\ dev # 0 => handles'[dev'] = handles[dev]
          /\ Len(handles') = (IF dev = 0 THEN 0 ELSE 1)]_vars

C8_Witness ==
    /\ Done /\ op = "FirmwareUpload" /\ deviceType = "Emulator"
    /\ result = Res(Empty, "ErrDeviceTypeEmulator")
    /\ dev # 0

\* C9: in every reachable state at most one handle is open, and it is the
\* one the engine holds: Connect closes the held handle before it asks the
\* driver for a new one.
C9_AtMostOneOpenHandle ==
    /\ Cardinality(OpenHandles) <= 1
    /\ OpenHandles \subseteq {dev}

C9_Witness ==
    /\ op = "Backup"
    /\ At("ButtonAck.read")
    /\ Len(handles) >= 3
    /\ OpenHandles = {dev}

\* the public operations that open a connection
ConnectingOps ==
    SimpleOps \cup ButtonOps \cup
    {"Backup", "ButtonAck", "FirmwareUpload", "GetUsbInfo", "SaveDeviceEntropyInFile"}

\* C10: whenever a public operation that opens a connection returns, with
\* a result or with any error, the engine holds no open handle.
C10_NoOpenHandleAfterReturn ==
    (Done /\ op \in ConnectingOps) => OpenHandles = {}


\* C11: Close is invoked at most once on every handle Connect obtained:
\* never again on a handle already closed by a deferred close, by
\* Disconnect or by a later Connect.  (That every handle is closed by the
\* time its operation returns is C10.)
C11_HandleClosedOnce ==
    \A h \in 1..Len(handles) : handles[h] <= 1

\* C12: Disconnect() closes the held handle whenever one is open, and so
\* returns an error only when no handle is open: it never returns leaving
\* an open handle unclosed.
C12_DisconnectCloses ==
    (Done /\ op = "Disconnect") => OpenHandles = {}

\* C13: the message ButtonAck() returns with a nil error, to a caller
\* inside the engine or to the public caller, is never of kind
\* ButtonRequest or EntropyRequest.
C13_ButtonAckFullLoop ==
    baRet.err = "nil" => baRet.msg \notin {"ButtonRequest", "EntropyRequest"}

\* the operations whose last reply is read by ButtonAck or by themselves
AckingOps == ButtonOps \cup {"Backup", "ButtonAck"}

\* C14: ButtonAck, ChangePin, GenerateMnemonic, Recovery, SetMnemonic,
\* SignMessage, Wipe and Backup never return a message of kind Failure
\* with a nil error.
C14_FailureIsError ==
    (Done /\ op \in AckingOps) => ~(result.msg = "Failure" /\ result.err = "nil")


\* writes of an entropy-ack frame made (or tried) by this operation
AckWrites ==
    Cardinality({i \in TraceIdx({"write", "writeFail"}) : trace[i][3] = "EntropyAck"})

\* EntropyRequest messages whose kind the loop has tested: all those read,
\* but the one just read while wg.Wait() is still ahead
TestedEntropyRequests ==
    Count("read", "EntropyRequest") -
        (IF (At("ButtonAck.wait") \/ At("Connected.wait")) /\ msg = "EntropyRequest"
         THEN 1 ELSE 0)

C16_StreamServicesEntropyRequest ==
    (op = "SaveDeviceEntropyInFile" /\ pc = <<"Entropy.return">>) =>
        \A i \in TraceIdx({"read"}) :
            trace[i][3] = "EntropyRequest" =>
                \E j \in (i + 1)..Len(trace) :
                    /\ trace[j][1] \in {"write", "writeFail"}
                    /\ trace[j][3] = "EntropyAck"


\* the stream of SaveDeviceEntropyInFile is running, from its first
\* entropy request to its return statement
InStream ==
    /\ op = "SaveDeviceEntropyInFile"
    /\ pc # <<>>
    /\ Head(pc) \in {"Entropy.request", "Entropy.ack", "Entropy.simulate",
                     "Entropy.read", "Entropy.return"}

\* C17: SaveDeviceEntropyInFile opens one connection for the whole stream:
\* the driver is asked for a handle once, however many chunks are
\* requested and ButtonRequests acknowledged, and every write and read of
\* the stream is made on that handle.
C17_StreamOneConnection ==
    /\ op = "SaveDeviceEntropyInFile" =>
          /\ Cardinality(TraceIdx({"open", "openFail"})) <= 1
          /\ \A i \in TraceIdx({"write", "writeFail", "read", "readFail"}) :
                trace[i][2] = dev /\ dev # 0
    /\ InStream =>
          \E i \in 1..Len(trace) :
              /\ trace[i] = Ev("open", dev, "GetDevice")
              /\ TraceIdx({"open", "openFail"}) = {i}

C17_Witness ==
    /\ InStream /\ pc = <<"Entropy.return">> /\ StreamClean
    /\ Len(requests) >= 2
    /\ Count("read", "ButtonRequest") = 1
    /\ Count("write", "ButtonAck") = 1
    /\ Cardinality(TraceIdx({"open"})) = 1


\* C18: every entropy request of SaveDeviceEntropyInFile is issued while
\* fewer bytes than totalBytes were received, and asks for exactly
\* totalBytes less the payload lengths of the Entropy replies so far; for
\* totalBytes = 0 there is no request.
C18_RequestsWhileShort ==
    op = "SaveDeviceEntropyInFile" =>
        \A i \in 1..Len(requests) :
            LET got == Sum(SubSeq(replies, 1, i - 1))
            IN /\ got < arg
               /\ requests[i] = arg - got


\* FirmwareUpload returned after its upload request was answered Failure,
\* the erase request having been answered Success
UploadFailed ==
    /\ Done /\ op = "FirmwareUpload" /\ ~AnyIOFail
    /\ Len(ReadKinds) = 3
    /\ ReadKinds[2] = "Success"
    /\ ReadKinds[3] = "Failure"

\* C19: when the erase reply is Success and the upload reply is Failure,
\* FirmwareUpload returns an error, and the error is what decoding the
\* erase reply gives, not what decoding the upload reply gives.
C19_UploadFailureUsesEraseReply ==
    UploadFailed =>
        /\ result.err \notin {"nil", "unset"}
        /\ result.err = DecodeFailMsg(ReadKinds[2], "erase")
        /\ result.err # DecodeFailMsg(ReadKinds[3], "upload")

C19_Witness ==
    /\ UploadFailed
    /\ WrittenFrames = <<"Initialize", "FirmwareErase", "FirmwareUpload">>
    /\ result.err = "ErrNotFailure:erase"


\* positions of the writes (made or tried) of a ButtonAck frame
AckIdx == {i \in TraceIdx({"write", "writeFail"}) : trace[i][3] = "ButtonAck"}

\* positions of the calls of Close on handle h
CloseIdx(h) == {i \in TraceIdx({"close"}) : trace[i][2] = h}

\* C20: Backup() calls ButtonAck() again for as long as the latest reply
\* is ButtonRequest, so it never returns a ButtonRequest with a nil error;
\* each ButtonAck writes its Ack on a handle of its own, opened by its own
\* Connect; and within Backup() the handle Backup opened is closed once:
\* by the deferred close when the direct reply was no ButtonRequest,
\* otherwise by the Connect of the first ButtonAck.
C20_BackupRepeatsButtonAck ==
    (op = "Backup") =>
        LET opens == TraceIdx({"open"})
        IN /\ Done => ~(result.msg = "ButtonRequest" /\ result.err = "nil")
           /\ \A i \in AckIdx :
                 /\ \E j \in opens :
                       /\ j < i /\ j # Min(opens)
                       /\ trace[j][2] = trace[i][2]
                       /\ \A k \in opens : k < i => k <= j
                 /\ \A k \in AckIdx : trace[k][2] = trace[i][2] => k = i
           /\ opens # {} =>
                 LET h == trace[Min(opens)][2]
                 IN /\ Cardinality(CloseIdx(h)) <= 1
                    /\ Done =>
                          /\ Cardinality(CloseIdx(h)) = 1
                          /\ \A i \in CloseIdx(h) :
                                trace[i][3] = (IF DirectReply = "ButtonRequest"
                                               THEN "Connect" ELSE "defer")

C20_Witness ==
    /\ Done /\ op = "Backup" /\ result = Res("Success", "nil")
    /\ Cardinality(AckIdx) = 2
    /\ Cardinality(TraceIdx({"open"})) = 3


\* C21: button-press simulation is enabled only on a driver whose device
\* type is Emulator; so on any other driver no simulated-press frame is
\* written and neither ButtonAck nor the entropy stream fails with the
\* wrong-device-type error of SimulateButtonPress.
C21_SimulationOnlyOnEmulator ==
    /\ simulateButtonPress => deviceType = "Emulator"
    /\ deviceType # "Emulator" =>
          /\ \A i \in 1..Len(trace) : trace[i][3] # "SimulateButtonPress"
          /\ result.err # "ErrWrongDeviceType"
          /\ baRet.err # "ErrWrongDeviceType"
          /\ entErr # "ErrWrongDeviceType"

C21_Witness ==
    /\ deviceType = "Emulator" /\ simulateButtonPress
    /\ Done /\ op = "ButtonAck" /\ result = Res("Success", "nil")
    /\ \E i \in 1..Len(trace) : trace[i] = Ev("write", dev, "SimulateButtonPress")


\* C22: SetAutoPressButton changes nothing when it returns an error, so
\* whenever simulation is enabled the configured button is one of
\* ButtonLeft, ButtonRight, ButtonBoth.
C22_SimulationTypeValid ==
    /\ simulateButtonPress => ValidButton(simulateButtonType)
    /\ [][(op' = "SetAutoPressButton" /\ pc' = <<"done">> /\ Idle
             /\ result'.err # "nil") =>
          UNCHANGED <<simulateButtonPress, simulateButtonType>>]_vars


\* C23: ButtonAck() and Connected() never return while an entropy-ack
\* write task they started is still running, and every entropy-ack frame
\* is written on a handle that is open: none is written after the deferred
\* Close of ButtonAck, or a later Connect, closed the handle.
C23_NoAckAfterClose ==
    [][/\ leaked' <= leaked
       /\ leaked' < leaked => IsOpen(dev)
       /\ (cur' < cur /\ leaked' = leaked) => IsOpen(dev)]_vars


\* C24: SaveDeviceEntropyInFile issues at most max(1, totalBytes) entropy
\* requests, also when Entropy replies carry an empty payload.
C24_StreamRequestsBounded ==
    op = "SaveDeviceEntropyInFile" => Len(requests) <= Max({1, arg})


Next ==
    \/ ConnectClose
    \/ ConnectGetDevice
    \/ AddressGen
    \/ ApplySettings
    \/ Cancel
    \/ CheckMessageSignature
    \/ GetFeatures
    \/ TransactionSign
    \/ PassphraseAck
    \/ WordAck
    \/ PinMatrixAck
    \/ ChangePin
    \/ GenerateMnemonic
    \/ Recovery
    \/ SetMnemonic
    \/ SignMessage
    \/ Wipe
    \/ Backup
    \/ OpConnected
    \/ OpSend
    \/ OpAckReturn
    \/ BackupLoop
    \/ ButtonAck
    \/ ButtonAckConnected
    \/ ButtonAckSend
    \/ ButtonAckSimulate
    \/ ButtonAckRead
    \/ ButtonAckReadNext
    \/ ButtonAckWait
    \/ EntropyAckTask
    \/ LeakedAckTask
    \/ Connected
    \/ ConnectedProbe
    \/ ConnectedRead
    \/ ConnectedReadNext
    \/ ConnectedWait
    \/ Disconnect
    \/ DisconnectCheck
    \/ GetUsbInfo
    \/ GetUsbInfoConnected
    \/ GetUsbInfoInfos
    \/ SetAutoPressButton
    \/ FirmwareUpload
    \/ FirmwareUploadInitialize
    \/ FirmwareUploadErase
    \/ FirmwareUploadUpload
    \/ FirmwareUploadButtonAck
    \/ SaveDeviceEntropyInFile
    \/ EntropyConnected
    \/ GetEntropy
    \/ EntropyButtonAck
    \/ EntropySimulate
    \/ EntropyRead
    \/ EntropyReturn
    \/ EntropyDeferred

Spec == Init /\ [][Next]_vars
====
